---- MODULE Spec2Model ----
(***************************************************************************)
(* Model of merge_taxonomic_classifications.py: one run of main(), which   *)
(* validates the merge order, streams the first source into the `merged`   *)
(* table with INSERT, streams every later source with INSERT OR REPLACE    *)
(* (classified_only=True), logs the summary and writes the output.         *)
(*                                                                         *)
(* Text is modelled structurally: a read name is a sequence of characters, *)
(* a line is the sequence of its fields (the result of line.split()), the  *)
(* merge order is a sequence of name pieces and "," separators.            *)
(***************************************************************************)
EXTENDS Integers, Sequences, FiniteSets, TLC

\* Bound on the number of data lines in the three input files together.
MaxTotalRows == 3

\* Default of the lines_per_chunk parameter of insert_first/insert_replace.
lines_per_chunk == 100000

\* Keys of valid_names in validate_merge_order.
valid_names == {"kaiju", "kraken", "clarks"}

---------------------------------------------------------------------------
(* Inputs                                                                  *)

ReadA == <<"a">>
ReadB == <<"b">>
ReadA1 == <<"a", "/", "1">>
ReadA2 == <<"a", "/", "2">>

\* Lines of a Kaiju file after line.split(): flag, read name, taxon id.
KaijuLines ==
    {<<"C", n, "5">> : n \in {ReadA, ReadB}} \cup {<<"U", n, "0">> : n \in {ReadA, ReadB}}

\* Lines of a Kraken file after line.split(): flag, read name, taxon id.
KrakenLines ==
    {<<"C", n, t>> : n \in {ReadA, ReadB}, t \in {"5", "7"}} \cup {<<"U", ReadA, "0">>}

\* Data lines of a CLARK-S file after line.split(","): read name, a second
\* column, and the taxon column, which is numeric, "NA", or absent.
ClarksLines ==
    {<<n, "x", t>> : n \in {ReadA1, ReadA2, ReadB}, t \in {"9", "NA"}}
        \cup {<<n, "x">> : n \in {ReadA1, ReadB}}

\* Values of the --merge-order option, as pieces separated by ",".
MergeOrders ==
    { <<"kaiju", ",", "kraken", ",", "clarks">>,
      <<"kaiju", ",", "clarks", ",", "kraken">>,
      <<"kraken", ",", "kaiju", ",", "clarks">>,
      <<"kraken", ",", "clarks", ",", "kaiju">>,
      <<"clarks", ",", "kaiju", ",", "kraken">>,
      <<"clarks", ",", "kraken", ",", "kaiju">>,
      <<"kaiju", ",", "kaiju", ",", "kraken">>,
      <<"kraken", ",", "kaiju">>,
      <<"kaiju", ",", "bogus", ",", "kraken">>,
      <<"kraken", ",", ",", "kaiju">> }

---------------------------------------------------------------------------
(* Pure helpers                                                            *)

\* merge_order.split(","): the pieces between separators; two adjacent
\* separators (or a leading/trailing one) give an empty name.
RECURSIVE SplitFrom(_, _, _)
SplitFrom(s, i, cur) ==
    IF i > Len(s) THEN <<cur>>
    ELSE IF s[i] = "," THEN <<cur>> \o SplitFrom(s, i + 1, "")
    ELSE SplitFrom(s, i + 1, s[i])

Split(s) == SplitFrom(s, 1, "")

\* The decimal strings that int() accepts, with their values.
IntTable == ("0" :> 0) @@ ("5" :> 5) @@ ("7" :> 7) @@ ("9" :> 9)

\* int(field): ValueError when the field is not a decimal string.
int(field) ==
    IF field \in DOMAIN IntTable
    THEN [ok |-> TRUE, val |-> IntTable[field]]
    ELSE [ok |-> FALSE, val |-> 0]

\* str(taxid), as applied by get_merged to every column.
str(n) == CHOOSE s \in DOMAIN IntTable : IntTable[s] = n

\* splitline[0].endswith(("/1", "/2")) and splitline[0][:-2].
endswith_mate(n) ==
    /\ Len(n) >= 2
    /\ n[Len(n) - 1] = "/"
    /\ n[Len(n)] \in {"1", "2"}

strip_mate(n) == IF endswith_mate(n) THEN SubSeq(n, 1, Len(n) - 2) ELSE n

\* Byte values of the characters used in read names (SQLite compares TEXT
\* bytewise).
Ord == ("/" :> 47) @@ ("1" :> 49) @@ ("2" :> 50) @@ ("a" :> 97) @@ ("b" :> 98)

RECURSIVE NameLess(_, _)
NameLess(x, y) ==
    IF x = <<>> THEN y # <<>>
    ELSE IF y = <<>> THEN FALSE
    ELSE IF Ord[Head(x)] # Ord[Head(y)] THEN Ord[Head(x)] < Ord[Head(y)]
    ELSE NameLess(Tail(x), Tail(y))

\* ORDER BY readname.
RECURSIVE OrderByReadname(_)
OrderByReadname(S) ==
    IF S = {} THEN <<>>
    ELSE LET m == CHOOSE x \in S : \A y \in S \ {x} : NameLess(x, y)
         IN <<m>> \o OrderByReadname(S \ {m})

---------------------------------------------------------------------------
(* State                                                                   *)

VARIABLES
    merge_order,        \* main's merge_order argument
    source_files,       \* source_files: name -> TRUE iff a path was given
    files,              \* contents of the input files: name -> data lines
    pc,                 \* position of main
    error,              \* the exception that ended the run, or "none"
    valid_merge_order,  \* result of validate_merge_order (source names)
    idx,                \* position in valid_merge_order being merged
    num,                \* parser local: enumerate counter (0 = unbound)
    classifications,    \* parser local
    classification,     \* parser local ("unbound" before first assignment)
    taxid,              \* parser local (meaningful once classification is bound)
    exhausted,          \* the running parser generator has returned
    chunk,              \* grouper: records of the chunk being collected
    yielded,            \* records each parser of the run has yielded so far
    store,              \* table merged: readname -> row
    reads,              \* Merger.reads
    output_opened,      \* the output file has been opened for writing
    output              \* lines printed to the output

vars == <<merge_order, source_files, files, pc, error, valid_merge_order, idx,
          num, classifications, classification, taxid, exhausted, chunk,
          yielded, store, reads, output_opened, output>>

inputs == <<merge_order, source_files, files>>
parser_locals == <<num, classifications, classification, taxid>>

EmptyMap == [x \in {} |-> 0]

\* Sequences over S of length exactly n.
SeqsOfLen(S, n) == [1..n -> S]

\* Merger.__init__: an empty table merged, empty reads; main has its
\* arguments.  A source without a path has no file.
Init ==
    /\ merge_order \in MergeOrders
    /\ \E missing \in {"none"} \cup valid_names :
         /\ source_files = [n \in valid_names |-> n # missing]
         /\ \E lk \in 0..MaxTotalRows :
              \E lr \in 0..(MaxTotalRows - lk) :
                \E lc \in 0..(MaxTotalRows - lk - lr) :
                  /\ missing = "kaiju" => lk = 0
                  /\ missing = "kraken" => lr = 0
                  /\ missing = "clarks" => lc = 0
                  /\ \E fk \in SeqsOfLen(KaijuLines, lk) :
                       \E fr \in SeqsOfLen(KrakenLines, lr) :
                         \E fc \in SeqsOfLen(ClarksLines, lc) :
                           files = [n \in valid_names |->
                                      CASE n = "kaiju" -> fk
                                        [] n = "kraken" -> fr
                                        [] OTHER -> fc]
    /\ pc = "validate"
    /\ error = "none"
    /\ valid_merge_order = <<>>
    /\ idx = 0
    /\ num = 0
    /\ classifications = 0
    /\ classification = "unbound"
    /\ taxid = 0
    /\ exhausted = FALSE
    /\ chunk = <<>>
    /\ yielded = <<>>
    /\ store = EmptyMap
    /\ reads = EmptyMap
    /\ output_opened = FALSE
    /\ output = <<>>

---------------------------------------------------------------------------
(* validate_merge_order                                                    *)

\* Variant: every name is accepted.
AnyName(name) == TRUE

IsValidName(name) == name \in valid_names

\* validate_merge_order: every name of the split merge order must be a key
\* of valid_names, otherwise exit(2).  Nothing else is checked.
validate_merge_order ==
    /\ pc = "validate"
    /\ LET names == Split(merge_order)
       IN IF \A i \in 1..Len(names) : IsValidName(names[i])
          THEN /\ valid_merge_order' = names
               /\ idx' = 1
               /\ pc' = "open"
               /\ error' = error
          ELSE /\ valid_merge_order' = valid_merge_order
               /\ idx' = idx
               /\ pc' = "failed"
               /\ error' = "SystemExit(2)"
    /\ UNCHANGED <<inputs, parser_locals, exhausted, chunk, yielded, store,
                   reads, output_opened, output>>

---------------------------------------------------------------------------
(* Record parsers: the body of each parser's for loop, applied to one line *)
(* with the generator's locals; and the code after the loop.               *)

Row(c, readname, t, source) ==
    [classified |-> c, readname |-> readname, taxid |-> t, source |-> source]

\* The if / elif / else that ends each loop body: the record is yielded
\* unless classified_only is set and the record is not "C".
Emits(classified_only, c) == (~classified_only) \/ c = "C"

\* Variant: the counter is incremented for every line.
CountEveryRow(n, c) == n + 1

\* classifications += 1 when the flag is "C".
CountClassified(n, c) == IF c = "C" THEN n + 1 ELSE n

\* Result of one loop iteration: the exception raised (or "none"), the
\* locals after it, and the records yielded (none or one).
Iteration(err, c, t, n, out) ==
    [error |-> err, classification |-> c, taxid |-> t,
     classifications |-> n, out |-> out]

parse_kaiju(line, n, classified_only) ==
    LET c == line[1]
        n2 == CountClassified(n, c)
        readname == line[2]
        t == int(line[3])
    IN IF ~t.ok THEN Iteration("ValueError", c, 0, n2, <<>>)
       ELSE Iteration("none", c, t.val, n2,
                      IF Emits(classified_only, c)
                      THEN <<Row(c, readname, t.val, "kaiju")>> ELSE <<>>)

parse_kraken(line, n, classified_only) ==
    LET c == line[1]
        n2 == CountClassified(n, c)
        readname == line[2]
        t == int(line[3])
    IN IF ~t.ok THEN Iteration("ValueError", c, 0, n2, <<>>)
       ELSE Iteration("none", c, t.val, n2,
                      IF Emits(classified_only, c)
                      THEN <<Row(c, readname, t.val, "kraken")>> ELSE <<>>)

\* parse_clarks: on IndexError (no third field) the line is only logged;
\* classification and taxid keep whatever the previous iteration left in
\* them, and reading classification while it is unbound raises.
parse_clarks(line, c0, t0, n, classified_only) ==
    LET readname == strip_mate(line[1])
        absent == Len(line) < 3
        t == IF absent THEN [ok |-> FALSE, val |-> 0] ELSE int(line[3])
        c == IF absent THEN c0 ELSE IF t.ok THEN "C" ELSE "U"
        tx == IF absent THEN t0 ELSE IF t.ok THEN t.val ELSE 0
        n2 == IF (~absent) /\ t.ok THEN n + 1 ELSE n
    IN IF c = "unbound" THEN Iteration("UnboundLocalError(classification)", c, tx, n2, <<>>)
       ELSE Iteration("none", c, tx, n2,
                      IF Emits(classified_only, c)
                      THEN <<Row(c, readname, tx, "clarks")>> ELSE <<>>)

\* Dispatch through valid_names: the parser bound to a source name.
Parser(name, line, c0, t0, n, classified_only) ==
    CASE name = "kaiju" -> parse_kaiju(line, n, classified_only)
      [] name = "kraken" -> parse_kraken(line, n, classified_only)
      [] OTHER -> parse_clarks(line, c0, t0, n, classified_only)

\* self.reads[...] = num - classifications
Unclassified(total, n) == total - n

\* The three assignments to self.reads after the loop.
ReadCounts(total, n) ==
    [total |-> total, classified |-> n, unclassified |-> Unclassified(total, n)]

\* Variant: no source is parsed with classified_only=True.
Unfiltered(i) == FALSE

\* main: the first source is parsed unfiltered, every later one with
\* classified_only=True.
ClassifiedOnly(i) == i > 1

---------------------------------------------------------------------------
(* Merge store                                                             *)

\* INSERT INTO merged VALUES (?, ?, ?, ?): readname is the PRIMARY KEY, so
\* a second row with the same readname fails (sqlite3.IntegrityError).
Insert(st, rec) ==
    IF rec.readname \in DOMAIN st
    THEN [ok |-> FALSE, store |-> st]
    ELSE [ok |-> TRUE,
          store |-> [r \in DOMAIN st \cup {rec.readname} |->
                       IF r = rec.readname THEN rec ELSE st[r]]]

\* Variant: INSERT OR IGNORE, an existing row is kept.
InsertOrIgnore(st, rec) ==
    [ok |-> TRUE,
     store |-> [r \in DOMAIN st \cup {rec.readname} |->
                  IF r \in DOMAIN st THEN st[r] ELSE rec]]

\* Variant: an existing row only has its taxid updated.
ReplaceTaxidOnly(st, rec) ==
    [ok |-> TRUE,
     store |-> [r \in DOMAIN st \cup {rec.readname} |->
                  IF r # rec.readname THEN st[r]
                  ELSE IF r \in DOMAIN st THEN [st[r] EXCEPT !.taxid = rec.taxid]
                  ELSE rec]]

\* INSERT OR REPLACE INTO merged VALUES (?, ?, ?, ?): the row with the same
\* readname, if any, is deleted and the new row inserted.
InsertOrReplace(st, rec) ==
    [ok |-> TRUE,
     store |-> [r \in DOMAIN st \cup {rec.readname} |->
                  IF r = rec.readname THEN rec ELSE st[r]]]

\* main: insert_first for valid_merge_order[0], insert_replace for the rest.
Statement(i, st, rec) == IF i = 1 THEN Insert(st, rec) ELSE InsertOrReplace(st, rec)

\* self.db.executemany(cmd, chunk): the rows in order, stopping at the
\* first failure.
RECURSIVE ExecuteMany(_, _, _)
ExecuteMany(i, st, ch) ==
    IF ch = <<>> THEN [ok |-> TRUE, store |-> st]
    ELSE LET r == Statement(i, st, Head(ch))
         IN IF r.ok THEN ExecuteMany(i, r.store, Tail(ch)) ELSE r

---------------------------------------------------------------------------
(* main: the merge loop                                                    *)

Current == valid_merge_order[idx]

\* First resumption of the parser generator: open(fn) raises when no path
\* was given for the source; parse_clarks also skips the header line.
open_source ==
    /\ pc = "open"
    /\ IF source_files[Current]
       THEN /\ pc' = "parse"
            /\ error' = error
            /\ yielded' = Append(yielded, <<>>)
       ELSE /\ pc' = "failed"
            /\ error' = "OpenError"
            /\ yielded' = yielded
    /\ num' = 0
    /\ classifications' = 0
    /\ classification' = "unbound"
    /\ taxid' = 0
    /\ exhausted' = FALSE
    /\ chunk' = <<>>
    /\ UNCHANGED <<inputs, valid_merge_order, idx, store, reads,
                   output_opened, output>>

\* One iteration of the parser's for loop, pulled by islice in grouper; a
\* yielded record joins the chunk, and a full chunk goes to executemany.
parse_line ==
    /\ pc = "parse"
    /\ ~exhausted
    /\ num < Len(files[Current])
    /\ LET it == Parser(Current, files[Current][num + 1], classification,
                        taxid, classifications, ClassifiedOnly(idx))
       IN /\ num' = num + 1
          /\ classification' = it.classification
          /\ taxid' = it.taxid
          /\ classifications' = it.classifications
          /\ IF it.error # "none"
             THEN /\ pc' = "failed"
                  /\ error' = it.error
                  /\ chunk' = chunk
                  /\ yielded' = yielded
             ELSE /\ chunk' = chunk \o it.out
                  /\ yielded' = [yielded EXCEPT ![idx] = @ \o it.out]
                  /\ pc' = IF Len(chunk') = lines_per_chunk THEN "execute" ELSE "parse"
                  /\ error' = error
    /\ UNCHANGED <<inputs, valid_merge_order, idx, exhausted, store, reads,
                   output_opened, output>>

\* The code after the parser's for loop: num is unbound when the loop body
\* never ran, otherwise the counts are recorded; the generator returns and
\* grouper hands the last chunk on.
parser_exhausted ==
    /\ pc = "parse"
    /\ ~exhausted
    /\ num = Len(files[Current])
    /\ IF num = 0
       THEN /\ pc' = "failed"
            /\ error' = "UnboundLocalError(num)"
            /\ reads' = reads
            /\ exhausted' = exhausted
       ELSE /\ pc' = "execute"
            /\ error' = error
            /\ reads' = [k \in DOMAIN reads \cup {Current} |->
                           IF k = Current THEN ReadCounts(num, classifications)
                           ELSE reads[k]]
            /\ exhausted' = TRUE
    /\ UNCHANGED <<inputs, valid_merge_order, idx, parser_locals, chunk,
                   yielded, store, output_opened, output>>

\* insert_first / insert_replace: executemany on the chunk; after the last
\* chunk, commit and go on to the next source or to the summary.
executemany ==
    /\ pc = "execute"
    /\ LET r == ExecuteMany(idx, store, chunk)
       IN /\ store' = r.store
          /\ chunk' = <<>>
          /\ IF ~r.ok
             THEN /\ pc' = "failed"
                  /\ error' = "IntegrityError"
                  /\ idx' = idx
             ELSE /\ error' = error
                  /\ IF ~exhausted
                     THEN pc' = "parse" /\ idx' = idx
                     ELSE IF idx < Len(valid_merge_order)
                          THEN pc' = "open" /\ idx' = idx + 1
                          ELSE pc' = "summary" /\ idx' = idx
    /\ UNCHANGED <<inputs, valid_merge_order, parser_locals, exhausted,
                   yielded, reads, output_opened, output>>

---------------------------------------------------------------------------
(* main: summary and output                                                *)

\* count_sources: SELECT source, classified, Count(classified) FROM merged
\* GROUP BY source, classified.
count_sources(st) ==
    LET groups == {<<st[r].source, st[r].classified>> : r \in DOMAIN st}
    IN {<<g[1], g[2],
          Cardinality({r \in DOMAIN st : st[r].source = g[1] /\ st[r].classified = g[2]})>> :
        g \in groups}

RECURSIVE SumCounts(_)
SumCounts(S) ==
    IF S = {} THEN 0
    ELSE LET c == CHOOSE x \in S : TRUE IN c[3] + SumCounts(S \ {c})

\* sum(c[2] for c in counted_sources if c[1] == flag)
Total(counted, flag) == SumCounts({c \in counted : c[2] = flag})

\* The logging of the source and merged summaries: every percentage is
\* computed by an unguarded division.
summary ==
    /\ pc = "summary"
    /\ LET counted_sources == count_sources(store)
           classified_total == Total(counted_sources, "C")
           unclassified_total == Total(counted_sources, "U")
       IN IF \/ \E i \in 1..Len(valid_merge_order) : reads[valid_merge_order[i]].total = 0
             \/ classified_total + unclassified_total = 0
          THEN pc' = "failed" /\ error' = "ZeroDivisionError"
          ELSE pc' = "output" /\ error' = error
    /\ UNCHANGED <<inputs, valid_merge_order, idx, parser_locals, exhausted,
                   chunk, yielded, store, reads, output_opened, output>>

\* get_merged: SELECT classified, readname, taxid FROM merged ORDER BY
\* readname, every column through str().
get_merged(st) ==
    LET names == OrderByReadname(DOMAIN st)
    IN [i \in 1..Len(names) |->
          <<st[names[i]].classified, names[i], str(st[names[i]].taxid)>>]

\* main: open the output and print one line per merged row.
write_output ==
    /\ pc = "output"
    /\ output_opened' = TRUE
    /\ output' = get_merged(store)
    /\ pc' = "done"
    /\ UNCHANGED <<inputs, error, valid_merge_order, idx, parser_locals,
                   exhausted, chunk, yielded, store, reads>>

Next ==
    \/ validate_merge_order
    \/ open_source
    \/ parse_line
    \/ parser_exhausted
    \/ executemany
    \/ summary
    \/ write_output

Spec == Init /\ [][Next]_vars

---------------------------------------------------------------------------
(* Vocabulary of the properties, read off the input files                  *)

ReadIds == {ReadA, ReadB}

Names == Split(merge_order)

Terminal == pc \in {"done", "failed"}

\* The merge order uses each of the three source names exactly once.
IsPermutation(names) ==
    /\ Len(names) = 3
    /\ {names[i] : i \in 1..Len(names)} = valid_names

\* The read identifier a line of a source's file is about.
LineReadId(name, line) == IF name = "clarks" THEN strip_mate(line[1]) ELSE line[2]

\* The line is a Classified call: flag C (Kaiju, Kraken), numeric taxon
\* column (CLARK-S).
LineClassified(name, line) ==
    IF name = "clarks" THEN Len(line) >= 3 /\ line[3] \in DOMAIN IntTable
    ELSE line[1] = "C"

\* The line is an Unclassified call: flag U, or non-numeric taxon column.
LineUnclassified(name, line) ==
    IF name = "clarks" THEN Len(line) >= 3 /\ line[3] \notin DOMAIN IntTable
    ELSE line[1] = "U"

\* The taxon ids a source's file assigns to a read.
FileCalls(name, r) ==
    {IntTable[files[name][k][3]] :
        k \in {j \in 1..Len(files[name]) :
                 LineClassified(name, files[name][j]) /\ LineReadId(name, files[name][j]) = r}}

\* Two different sources of the merge order classify r with different ids.
ConflictingCalls(r) ==
    \E i, j \in 1..Len(valid_merge_order) :
        /\ valid_merge_order[i] # valid_merge_order[j]
        /\ \E t1 \in FileCalls(valid_merge_order[i], r) :
             \E t2 \in FileCalls(valid_merge_order[j], r) : t1 # t2

Classifiers(r) ==
    {i \in 1..Len(valid_merge_order) : FileCalls(valid_merge_order[i], r) # {}}

Min(S) == CHOOSE x \in S : \A y \in S : x <= y
Max(S) == CHOOSE x \in S : \A y \in S : x >= y

\* Positions of the merge order whose parser yielded a Classified record
\* for r, and the last such record of a position.
Emitters(r) ==
    {i \in 1..Len(yielded) :
        \E k \in 1..Len(yielded[i]) :
            yielded[i][k].readname = r /\ yielded[i][k].classified = "C"}

LastFor(recs, r) == recs[Max({k \in 1..Len(recs) : recs[k].readname = r})]

---------------------------------------------------------------------------
(* C1 *)

\* C1 (as stated): when the run is done, a read that two or more sources
\* classify with different taxon ids carries the taxon id and source tag of
\* the source that comes first in the merge order among those that
\* classified it.
C1_HighestPriorityWins ==
    pc = "done" =>
        \A r \in ReadIds :
            ConflictingCalls(r) =>
                /\ r \in DOMAIN store
                /\ store[r].classified = "C"
                /\ store[r].source = valid_merge_order[Min(Classifiers(r))]
                /\ store[r].taxid \in FileCalls(valid_merge_order[Min(Classifiers(r))], r)

\* C1 (amended): when the run is done, a read that two or more sources
\* classify with different taxon ids carries the last Classified record
\* that the parser of the LAST position of the merge order yielding a
\* Classified record for it has yielded.
C1_LastClassifierWins ==
    pc = "done" =>
        \A r \in ReadIds :
            ConflictingCalls(r) =>
                /\ r \in DOMAIN store
                /\ Emitters(r) # {}
                /\ Max(Emitters(r)) >= Max(Classifiers(r))
                /\ store[r] = LastFor(yielded[Max(Emitters(r))], r)
                /\ store[r].classified = "C"

C1_Witness ==
    /\ pc = "done"
    /\ \E r \in ReadIds :
         /\ ConflictingCalls(r)
         /\ store[r].source # valid_merge_order[Min(Classifiers(r))]

---------------------------------------------------------------------------
(* C2 *)

\* C2: in every step, a read whose entry is Classified keeps a Classified
\* entry; and while a source after the first is merged, an Unclassified
\* line yields nothing and leaves the store alone, and every entry the
\* store gains or changes is Classified.
C2_ClassifiedNeverLost ==
    [][ /\ \A r \in DOMAIN store :
              store[r].classified = "C" =>
                  r \in DOMAIN store' /\ store'[r].classified = "C"
        /\ (idx >= 2 /\ idx' = idx) =>
              \A r \in DOMAIN store' :
                  (r \notin DOMAIN store \/ store'[r] # store[r]) =>
                      store'[r].classified = "C"
        /\ (/\ pc = "parse" /\ idx >= 2 /\ num' = num + 1
            /\ LineUnclassified(Current, files[Current][num + 1])) =>
              (chunk' = chunk /\ yielded' = yielded /\ store' = store)
      ]_vars

C2_Witness ==
    /\ idx >= 2
    /\ pc = "execute"
    /\ exhausted
    /\ \E k \in 1..Len(files[Current]) :
         /\ LineUnclassified(Current, files[Current][k])
         /\ LineReadId(Current, files[Current][k]) \in DOMAIN store
         /\ store[LineReadId(Current, files[Current][k])].classified = "C"
         /\ store[LineReadId(Current, files[Current][k])].source # Current

---------------------------------------------------------------------------
(* C3 *)

\* C3 (as stated): with a merge order that is a permutation of the three
\* names and a file for each source, the run ends done, and every read_id
\* of the first source's input has an entry in the store and a line in the
\* output.
C3_FirstSourceReadsInOutput ==
    (/\ Terminal
     /\ IsPermutation(Names)
     /\ \A n \in valid_names : source_files[n]) =>
        /\ pc = "done"
        /\ \A k \in 1..Len(files[Names[1]]) :
             LET r == LineReadId(Names[1], files[Names[1]][k])
             IN /\ r \in DOMAIN store
                /\ \E o \in 1..Len(output) : output[o][2] = r

---------------------------------------------------------------------------
(* C4 *)

\* C4 (as stated): a merge order that is not a permutation of the three
\* names ends in exit(2): nothing is parsed, nothing stored, no output.
C4_NonPermutationRejected ==
    (pc # "validate" /\ ~IsPermutation(Names)) =>
        /\ pc = "failed"
        /\ error = "SystemExit(2)"
        /\ yielded = <<>>
        /\ store = EmptyMap
        /\ ~output_opened

\* C4 (amended): the run ends in exit(2), with nothing parsed, nothing
\* stored and no output, exactly when the merge order contains a name that
\* is not one of kaiju, kraken, clarks; a merge order of known names that
\* repeats or omits a source is accepted.
C4_UnknownNameRejected ==
    pc # "validate" =>
        IF \E i \in 1..Len(Names) : Names[i] \notin valid_names
        THEN /\ pc = "failed"
             /\ error = "SystemExit(2)"
             /\ yielded = <<>>
             /\ num = 0
             /\ store = EmptyMap
             /\ reads = EmptyMap
             /\ ~output_opened
        ELSE /\ error # "SystemExit(2)"
             /\ valid_merge_order = Names

C4_Witness ==
    /\ pc = "failed"
    /\ error = "SystemExit(2)"
    /\ \E i \in 1..Len(Names) : Names[i] = "bogus"

---------------------------------------------------------------------------
(* C5 *)

\* C5 (as stated): when the merge order (of known names) names a source
\* without a file path, no line of any source is ever parsed and nothing
\* is ever stored, and the run ends failed.
C5_MissingSourceBeforeParsing ==
    (/\ \A i \in 1..Len(Names) : Names[i] \in valid_names
     /\ \E i \in 1..Len(Names) : ~source_files[Names[i]]) =>
        /\ num = 0
        /\ yielded \in {<<>>, <<<<>>>>}
        /\ store = EmptyMap
        /\ reads = EmptyMap
        /\ Terminal => pc = "failed" /\ error = "OpenError"

---------------------------------------------------------------------------
(* C6 *)

\* Number of lines of the CLARK-S file that have a taxon column.
ClarksWellFormed ==
    Cardinality({k \in 1..Len(files["clarks"]) : Len(files["clarks"][k]) >= 3})

\* C6 (as stated): a CLARK-S line without a third field does not raise,
\* yields no record, and is not counted: the recorded clarks total is the
\* number of lines that have the field.
C6_MalformedRowSkipped ==
    /\ [][ (/\ pc = "parse" /\ Current = "clarks" /\ num' = num + 1
            /\ Len(files["clarks"][num + 1]) < 3) =>
              (/\ error' = "none"
               /\ chunk' = chunk
               /\ yielded' = yielded
               /\ classifications' = classifications)
         ]_vars
    /\ []("clarks" \in DOMAIN reads =>
            /\ reads["clarks"].total = ClarksWellFormed
            /\ reads["clarks"].classified + reads["clarks"].unclassified = ClarksWellFormed)

---------------------------------------------------------------------------
(* C7 *)

\* C7 (as stated): a run whose merge order names a source with an empty
\* input does not fail on the missing total: unless it ended for another
\* reason, it completes and writes its output.
C7_ZeroTotalsTolerated ==
    (/\ Terminal
     /\ valid_merge_order # <<>>
     /\ \E i \in 1..Len(valid_merge_order) :
          /\ source_files[valid_merge_order[i]]
          /\ files[valid_merge_order[i]] = <<>>) =>
        \/ pc = "done" /\ output_opened
        \/ error \in {"OpenError", "IntegrityError", "ValueError",
                      "UnboundLocalError(classification)"}

---------------------------------------------------------------------------
(* C8 *)

\* C8: once a parser has recorded its counts, classified + unclassified =
\* total, total is the number of lines of the source's file and classified
\* the number of its Classified lines, whether or not the parser ran with
\* classified_only.
C8_CountsReflectFile ==
    \A s \in DOMAIN reads :
        /\ reads[s].classified + reads[s].unclassified = reads[s].total
        /\ reads[s].total = Len(files[s])
        /\ reads[s].classified =
             Cardinality({k \in 1..Len(files[s]) : LineClassified(s, files[s][k])})

C8_Witness ==
    /\ idx >= 2
    /\ pc = "execute"
    /\ exhausted
    /\ Current \in DOMAIN reads
    /\ Len(yielded[idx]) < reads[Current].total
    /\ reads[Current].classified >= 1
    /\ \E s \in DOMAIN reads : s # Current /\ reads[s].unclassified >= 1

---------------------------------------------------------------------------
(* C9 *)

\* C9: when executemany runs for a source after the first, the chunk holds
\* a Classified record for every Classified line of the source's file, all
\* its records are Classified, and afterwards the entry of every read_id
\* in the chunk is, in all four columns, the last record of the chunk for
\* that read_id, whatever was stored before; other entries are untouched.
C9_ClassifiedRecordReplaces ==
    [][ (pc = "execute" /\ idx >= 2) =>
          /\ \A k \in 1..Len(files[Current]) :
                LineClassified(Current, files[Current][k]) =>
                    \E j \in 1..Len(chunk) :
                        chunk[j] = Row("C", LineReadId(Current, files[Current][k]),
                                       IntTable[files[Current][k][3]], Current)
          /\ \A k \in 1..Len(chunk) :
                /\ chunk[k].classified = "C"
                /\ chunk[k].readname \in DOMAIN store'
                /\ store'[chunk[k].readname] = LastFor(chunk, chunk[k].readname)
          /\ \A r \in DOMAIN store' :
                (\A k \in 1..Len(chunk) : chunk[k].readname # r) =>
                    r \in DOMAIN store /\ store'[r] = store[r]
      ]_vars

C9_Witness ==
    /\ Len(yielded) >= 2
    /\ pc \in {"open", "summary"}
    /\ \E k \in 1..Len(yielded[1]) :
         LET r == yielded[1][k].readname
         IN /\ r \in DOMAIN store
            /\ store[r].source # yielded[1][k].source
            /\ store[r].classified = "C"
            /\ yielded[1][k].classified = "C"
            /\ store[r].taxid # yielded[1][k].taxid

---------------------------------------------------------------------------
(* C10 *)

\* Source 0 has yielded two records with the same read_id.
DuplicateInFirst(r) ==
    /\ Len(yielded) >= 1
    /\ \E j, k \in 1..Len(yielded[1]) :
         j < k /\ yielded[1][j].readname = r /\ yielded[1][k].readname = r

\* C10 (as stated): when source 0 yields two records with the same
\* read_id, insert_first completes without error and the store then holds
\* the later record for that read_id.
C10_LastWriteWinsInFirst ==
    \A r \in ReadIds :
        DuplicateInFirst(r) =>
            /\ error # "IntegrityError"
            /\ ((idx = 1 /\ pc = "summary") \/ (idx = 2 /\ pc = "open")) =>
                   (r \in DOMAIN store /\ store[r] = LastFor(yielded[1], r))

====
